---- MODULE Spec2Model ----
(***************************************************************************)
(* Model of the lxc execution driver (execdriver/lxc/driver.go).           *)
(*                                                                         *)
(* Spec      : one execution of driver.Run -- the launching thread, the    *)
(*             exit-watcher goroutine, the child process and the clock.    *)
(* SpecKill  : calls of driver.Kill against a host with or without the     *)
(*             lxc-kill / lxc-stop tools.                                  *)
(* SpecInfo  : calls of info.IsRunning.                                    *)
(*                                                                         *)
(* Go strings are TLA+ strings; a nil error is the string "nil".           *)
(***************************************************************************)
EXTENDS Integers, Sequences, FiniteSets, TLC

VARIABLES
    \* ---- driver.Run: launching thread
    pc,             \* position of the launching thread inside Run / waitForStart
    startCallback,  \* the callback argument of Run: "nil" or "fn"
    output,         \* waitForStart's local `output`
    err,            \* waitForStart's local `err`
    wfsResult,      \* what waitForStart returned ("unset" until it returns)
    ret,            \* what Run returned ([code, err]; err = "unset" until it returns)
    callbackCalls,  \* how many times startCallback was invoked
    \* ---- driver.Run: exit-watcher goroutine and what it shares with Run
    wpc,            \* position of the goroutine started at driver.go:159
    werr,           \* the goroutine's local `err` (result of c.Wait())
    waitErr,        \* Run's `waitErr`
    waitLock,       \* Run's `waitLock` channel: "open" or "closed"
    \* ---- the child process (c.Process / c.ProcessState)
    proc,           \* "unstarted", "running" or "exited"
    procStatus,     \* wait status of the child once it has exited
    ProcessState,   \* c.ProcessState: NilState until c.Wait() stores the status
    \* ---- time
    clock,          \* milliseconds elapsed since waitForStart took `now`
    \* ---- history of the execution (read by the properties only)
    lastQuery,      \* result of the most recent getInfo call of waitForStart
    iterQueries,    \* getInfo calls made so far in the current poll iteration
    queryFailed,    \* some getInfo call of waitForStart returned an error
    sawRunning,     \* some getInfo output of waitForStart contained "RUNNING"
    firedInTime,    \* waitLock was closed before waitForStart returned and before Timeout
    exitedInTime,   \* the child exited while less than Timeout had elapsed
    observedExit,   \* waitForStart took its `case <-waitLock` branch
    \* ---- driver.Kill
    lxcKillFound,   \* host: exec.LookPath("lxc-kill") succeeds
    lxcStopFound,   \* host: lxc-stop is installed
    cmdLog,         \* commands executed by Kill, oldest first
    killCall,       \* arguments and tool result of the latest Kill call
    killRet,        \* what the latest Kill call returned
    \* ---- info.IsRunning
    driver,         \* the driver struct: root, apparmor, sharedRoot
    queryLog,       \* status queries issued by IsRunning, oldest first
    infoCall,       \* id and query result of the latest IsRunning call
    infoRet,        \* what the latest IsRunning call returned
    \* ---- driver.Restore
    restoreID,      \* the c.ID Restore was called with
    rpc,            \* position inside Restore: "query", "check", "sleep" or "done"
    routput,        \* Restore's local `output`
    rerr,           \* Restore's local `err`
    restoreRet,     \* what Restore returned ("unset" until it returns)
    lxcStatus,      \* host: what a status query of the container answers right now
    restoreLast,    \* history: answer of the latest status query of Restore
    restorePolls,   \* history: status queries Restore has issued (counted up to MaxRestorePolls)
    restoreFailures, \* history: failed status queries of Restore (counted up to MaxRestorePolls)
    \* ---- driver.Run: the command line it builds and starts (driver.go:87-149)
    lookPathFound,  \* host: exec.LookPath(name) at line 144 succeeds
    command,        \* the execdriver.Command argument c, as Run received it
    params,         \* Run's `params` after line 122
    cArgs,          \* c.Args as set at line 149
    cPath,          \* c.Path as set at line 148
    \* ---- driver.GetPidsForContainer
    tasksFile,      \* host: the cgroup tasks file, [cgroup, where, content]
    pidsRet,        \* what GetPidsForContainer returned, [called, id, pids, err]
    \* ---- NewDriver
    mountinfo,      \* host: /proc/self/mountinfo, [readable, content]
    linkErr,        \* host: the error linkLxcStart returns ("nil" when it succeeds)
    newDriverRet    \* outcome of NewDriver, [status, err, root, apparmor, sharedRoot]

runVars  == <<pc, startCallback, output, err, wfsResult, ret, callbackCalls,
              wpc, werr, waitErr, waitLock, proc, procStatus, ProcessState,
              clock, lastQuery, iterQueries, queryFailed, sawRunning,
              firedInTime, exitedInTime, observedExit>>
killVars == <<lxcKillFound, lxcStopFound, cmdLog, killCall, killRet>>
infoVars == <<driver, queryLog, infoCall, infoRet>>
restoreVars == <<restoreID, rpc, routput, rerr, restoreRet, lxcStatus, restoreLast,
                 restorePolls, restoreFailures>>
argVars  == <<lookPathFound, command, params, cArgs, cPath>>
pidVars  == <<tasksFile, pidsRet>>
mountVars == <<mountinfo, linkErr, newDriverRet>>
\* the operations other than Run, Kill and IsRunning
extra    == <<restoreVars, argVars, pidVars, mountVars>>
\* what each of these operations leaves alone
exceptRestore == <<runVars, killVars, infoVars, argVars, pidVars, mountVars>>
exceptArgs    == <<killVars, infoVars, restoreVars, pidVars, mountVars>>
exceptPids    == <<runVars, killVars, infoVars, restoreVars, argVars, mountVars>>
exceptMount   == <<runVars, killVars, infoVars, restoreVars, argVars, pidVars>>
\* what an execution of Run leaves alone
idle     == <<killVars, infoVars, extra>>
vars     == <<runVars, killVars, infoVars, extra>>

(***************************************************************************)
(* Program constants and bounds                                            *)
(***************************************************************************)
\* 5*time.Second, in milliseconds
Timeout == 5000
\* time.Sleep(50 * time.Millisecond)
PollSleep == 50
\* Milliseconds by which one scheduling delay or slow status query advances the clock
Delay == 1250
\* How many Kill calls one behaviour of SpecKill makes
MaxKillCalls == 2
\* How many IsRunning calls one behaviour of SpecInfo makes
MaxInfoCalls == 2
\* Up to how many status queries of Restore the history counts
MaxRestorePolls == 3

DriverName == "lxc"

(***************************************************************************)
(* Values                                                                  *)
(***************************************************************************)
ErrNotRunning == "Container is not running"

\* Errors a status query (exec.Command(...).CombinedOutput()) can return
QueryErrs == {"exit status 1", "broken pipe"}
\* Combined outputs of the status tool
Outputs == {"state: RUNNING", "state: STOPPED", "state: RUNNIN", ""}
\* (output, err) pairs of one status query; output is returned on failure too
QueryResults == [out : Outputs, err : {"nil"} \cup QueryErrs]
\* The status query results the poll loop of waitForStart is run against
PollResults == { [out |-> "state: RUNNING", err |-> "nil"],
                 [out |-> "state: STOPPED", err |-> "nil"],
                 [out |-> "", err |-> "exit status 1"],
                 [out |-> "state: RUNNING", err |-> "broken pipe"] }

\* syscall.WaitStatus values of the child
Statuses == { [kind |-> "exited", code |-> 0],
              [kind |-> "exited", code |-> 1],
              [kind |-> "signaled", code |-> 9] }
NilState == [kind |-> "nil", code |-> 0]

ContainerIDs == {"c1", "c2"}

(***************************************************************************)
(* Library functions, as the code uses them                                *)
(***************************************************************************)
\* strings.Contains(s, substr)
Contains(s, substr) ==
    \E i \in 1..(Len(s) - Len(substr) + 1) :
        SubSeq(s, i, i + Len(substr) - 1) = substr

\* syscall.WaitStatus.ExitStatus(): -1 unless the process exited normally
ExitStatus(ws) == IF ws.kind = "exited" THEN ws.code ELSE -1

\* os.ProcessState.Success()
Success(ws) == ws.kind = "exited" /\ ws.code = 0

IsExitError(e) == e = "ExitError"

\* getExitCode(c)
getExitCode(ps) == IF ps = NilState THEN -1 ELSE ExitStatus(ps)

\* d.getInfo(id): the status query command line
getInfo(id) == <<"lxc-info", "-s", "-n", id>>

(***************************************************************************)
(* driver.Run                                                              *)
(***************************************************************************)
NoRet == [code |-> 0, err |-> "unset"]
NoQuery == [out |-> "", err |-> "unset"]

\* positions inside waitForStart
WfsPcs == {"loopHead", "select", "getInfo", "retry", "contains", "sleep"}
\* positions at which waitForStart has not returned yet
PreReturnPcs == {"SetTerminal", "generateLXCConfig", "params", "wrap", "Start", "go",
                 "waitForStart"} \cup WfsPcs

\* The state at the entry of Run; callbacks is the set the caller's callback is drawn from
InitRun(callbacks) ==
    /\ pc = "SetTerminal"
    /\ startCallback \in callbacks
    /\ output = ""
    /\ err = "nil"
    /\ wfsResult = "unset"
    /\ ret = NoRet
    /\ callbackCalls = 0
    /\ wpc = "none"
    /\ werr = "nil"
    /\ waitErr = "nil"
    /\ waitLock = "open"
    /\ proc = "unstarted"
    /\ procStatus = NilState
    /\ ProcessState = NilState
    /\ clock = 0
    /\ lastQuery = NoQuery
    /\ iterQueries = 0
    /\ queryFailed = FALSE
    /\ sawRunning = FALSE
    /\ firedInTime = FALSE
    /\ exitedInTime = FALSE
    /\ observedExit = FALSE

launcherLocals == <<output, err, lastQuery, iterQueries, queryFailed, sawRunning>>
watcherVars == <<wpc, werr, waitErr, waitLock, ProcessState, firedInTime>>
childVars == <<proc, procStatus, exitedInTime>>

\* `return code, e` of Run
RunReturn(code, e) ==
    /\ ret' = [code |-> code, err |-> e]
    /\ pc' = "done"

\* driver.go:80-82
SetTerminal ==
    /\ pc = "SetTerminal"
    /\ \/ /\ pc' = "generateLXCConfig"
          /\ UNCHANGED ret
       \/ RunReturn(-1, "terminal error")
    /\ UNCHANGED <<idle, startCallback, wfsResult, callbackCalls, clock, observedExit,
                   launcherLocals, watcherVars, childVars>>

\* driver.go:83-86
GenerateLXCConfig ==
    /\ pc = "generateLXCConfig"
    /\ \/ /\ pc' = "params"
          /\ UNCHANGED ret
       \/ \E e \in {"create error", "template error"} : RunReturn(-1, e)
    /\ UNCHANGED <<idle, startCallback, wfsResult, callbackCalls, clock, observedExit,
                   launcherLocals, watcherVars, childVars>>

\* A slip that drops the error of c.Start() and carries on
StartIgnoresError ==
    /\ pc = "Start"
    /\ pc' = "go"
    /\ \/ proc' = "running"
       \/ UNCHANGED proc
    /\ UNCHANGED <<idle, startCallback, wfsResult, ret, callbackCalls, clock, observedExit,
                   launcherLocals, watcherVars, procStatus, exitedInTime>>

\* driver.go:151-153
Start ==
    /\ pc = "Start"
    /\ \/ /\ pc' = "go"
          /\ proc' = "running"
          /\ UNCHANGED ret
       \/ /\ RunReturn(-1, "start error")
          /\ UNCHANGED proc
    /\ UNCHANGED <<idle, startCallback, wfsResult, callbackCalls, clock, observedExit,
                   launcherLocals, watcherVars, procStatus, exitedInTime>>

\* driver.go:155-166: the go statement
SpawnWatcher ==
    /\ pc = "go"
    /\ wpc' = "Wait"
    /\ pc' = "waitForStart"
    /\ UNCHANGED <<idle, startCallback, wfsResult, ret, callbackCalls, clock, observedExit,
                   launcherLocals, werr, waitErr, waitLock, ProcessState, firedInTime,
                   childVars>>

\* driver.go:169 and 245: waitForStart is entered and takes `now`
EnterWaitForStart ==
    /\ pc = "waitForStart"
    /\ pc' = "loopHead"
    /\ clock' = 0
    /\ UNCHANGED <<idle, startCallback, wfsResult, ret, callbackCalls, observedExit,
                   launcherLocals, watcherVars, childVars>>

\* `return e` of waitForStart
WfsReturn(e) ==
    /\ wfsResult' = e
    /\ pc' = "checkStart"

\* A slip that stops polling one sleep before the deadline
LoopCondEarly(elapsed) == elapsed + PollSleep < Timeout

\* driver.go:245: the loop condition time.Since(now) < 5*time.Second
LoopCond(elapsed) == elapsed < Timeout

\* driver.go:245 and 268: loop head; falling out of the loop returns ErrNotRunning
LoopHead ==
    /\ pc = "loopHead"
    /\ IF LoopCond(clock)
         THEN /\ pc' = "select"
              /\ iterQueries' = 0
              /\ UNCHANGED wfsResult
         ELSE /\ WfsReturn(ErrNotRunning)
              /\ UNCHANGED iterQueries
    /\ UNCHANGED <<idle, startCallback, ret, callbackCalls, clock, observedExit,
                   output, err, lastQuery, queryFailed, sawRunning,
                   watcherVars, childVars>>

\* driver.go:246-254: which branch the non-blocking select takes
SelectBranch(lock) == IF lock = "closed" THEN "waitLock" ELSE "default"

\* driver.go:246-254
Select ==
    /\ pc = "select"
    /\ IF SelectBranch(waitLock) = "waitLock"
         THEN /\ WfsReturn("nil")
              /\ observedExit' = TRUE
         ELSE /\ pc' = "getInfo"
              /\ UNCHANGED <<wfsResult, observedExit>>
    /\ UNCHANGED <<idle, startCallback, ret, callbackCalls, clock,
                   launcherLocals, watcherVars, childVars>>

\* the bookkeeping of one getInfo call that returned r
Queried(r) ==
    /\ output' = r.out
    /\ err' = r.err
    /\ lastQuery' = r
    /\ iterQueries' = iterQueries + 1
    /\ queryFailed' = (queryFailed \/ r.err # "nil")
    /\ sawRunning' = (sawRunning \/ Contains(r.out, "RUNNING"))

\* A slip that drops the retry and tests whatever the failed query printed
AfterGetInfoNoRetry(e) == "contains"

\* driver.go:256-257: where the first query of an iteration leads
AfterGetInfo(e) == IF e # "nil" THEN "retry" ELSE "contains"

\* driver.go:256-257
GetInfo ==
    /\ pc = "getInfo"
    /\ \E r \in PollResults :
          /\ Queried(r)
          /\ pc' = AfterGetInfo(r.err)
    /\ UNCHANGED <<idle, startCallback, wfsResult, ret, callbackCalls, clock, observedExit,
                   watcherVars, childVars>>

\* driver.go:258-261: the retry; a second failure is returned
Retry ==
    /\ pc = "retry"
    /\ \E r \in PollResults :
          /\ Queried(r)
          /\ IF r.err # "nil"
               THEN WfsReturn(r.err)
               ELSE /\ pc' = "contains"
                    /\ UNCHANGED wfsResult
    /\ UNCHANGED <<idle, startCallback, ret, callbackCalls, clock, observedExit,
                   watcherVars, childVars>>

\* driver.go:263-265
CheckRunning ==
    /\ pc = "contains"
    /\ IF Contains(output, "RUNNING")
         THEN WfsReturn("nil")
         ELSE /\ pc' = "sleep"
              /\ UNCHANGED wfsResult
    /\ UNCHANGED <<idle, startCallback, ret, callbackCalls, clock, observedExit,
                   launcherLocals, watcherVars, childVars>>

\* A slip that launches the container again before polling again
SleepRelaunches ==
    /\ pc = "sleep"
    /\ clock' = clock + PollSleep
    /\ pc' = "Start"
    /\ UNCHANGED <<idle, startCallback, wfsResult, ret, callbackCalls, observedExit,
                   launcherLocals, watcherVars, childVars>>

\* driver.go:266
Sleep ==
    /\ pc = "sleep"
    /\ clock' = clock + PollSleep
    /\ pc' = "loopHead"
    /\ UNCHANGED <<idle, startCallback, wfsResult, ret, callbackCalls, observedExit,
                   launcherLocals, watcherVars, childVars>>

\* Wall-clock time passing while the launching thread is inside waitForStart:
\* a slow status query, an oversleeping time.Sleep or a scheduling delay.
TimePasses ==
    /\ pc \in WfsPcs
    /\ clock < Timeout
    /\ clock' = clock + Delay
    /\ UNCHANGED <<idle, pc, startCallback, wfsResult, ret, callbackCalls, observedExit,
                   launcherLocals, watcherVars, childVars>>

\* A slip that lets a start-confirmation timeout through as a confirmed start
StartConfirmedDespiteTimeout(e) == e \in {"nil", ErrNotRunning}

\* A slip that treats only the timeout as a failed start confirmation
StartConfirmedUnlessTimeout(e) == e # ErrNotRunning

\* driver.go:169: `err != nil` fails the launch
StartConfirmed(e) == e = "nil"

\* driver.go:169-171
CheckStart ==
    /\ pc = "checkStart"
    /\ IF ~StartConfirmed(wfsResult)
         THEN RunReturn(-1, wfsResult)
         ELSE /\ pc' = "callback"
              /\ UNCHANGED ret
    /\ UNCHANGED <<idle, startCallback, wfsResult, callbackCalls, clock, observedExit,
                   launcherLocals, watcherVars, childVars>>

\* driver.go:173-175: how many calls of startCallback Run makes here
CallbackInvocations(cb) == IF cb # "nil" THEN 1 ELSE 0

\* driver.go:173-175
Callback ==
    /\ pc = "callback"
    /\ callbackCalls' = callbackCalls + CallbackInvocations(startCallback)
    /\ pc' = "recv"
    /\ UNCHANGED <<idle, startCallback, wfsResult, ret, clock, observedExit,
                   launcherLocals, watcherVars, childVars>>

\* A slip that goes on to the return without receiving from waitLock
RecvWithoutWaiting ==
    /\ pc = "recv"
    /\ pc' = "return"
    /\ UNCHANGED <<idle, startCallback, wfsResult, ret, callbackCalls, clock, observedExit,
                   launcherLocals, watcherVars, childVars>>

\* driver.go:177: <-waitLock blocks until the channel is closed
Recv ==
    /\ pc = "recv"
    /\ waitLock = "closed"
    /\ pc' = "return"
    /\ UNCHANGED <<idle, startCallback, wfsResult, ret, callbackCalls, clock, observedExit,
                   launcherLocals, watcherVars, childVars>>

\* A slip that invokes the callback once more on the way out
ReturnCallsBack ==
    /\ pc = "return"
    /\ RunReturn(getExitCode(ProcessState), waitErr)
    /\ callbackCalls' = callbackCalls + CallbackInvocations(startCallback)
    /\ UNCHANGED <<idle, startCallback, wfsResult, clock, observedExit,
                   launcherLocals, watcherVars, childVars>>

\* driver.go:179
Return ==
    /\ pc = "return"
    /\ RunReturn(getExitCode(ProcessState), waitErr)
    /\ UNCHANGED <<idle, startCallback, wfsResult, callbackCalls, clock, observedExit,
                   launcherLocals, watcherVars, childVars>>

(***************************************************************************)
(* The exit-watcher goroutine, driver.go:159-166                           *)
(***************************************************************************)
\* What c.Wait() returns for a reaped child with status ws (os/exec.Cmd.Wait):
\* an *exec.ExitError unless the child succeeded, else nil or an I/O copy error
WaitResults(ws) == IF Success(ws) THEN {"nil", "copy error"} ELSE {"ExitError"}

\* driver.go:160: c.Wait() blocks until the child has exited
WatcherWait ==
    /\ wpc = "Wait"
    /\ proc = "exited"
    /\ \/ /\ ProcessState' = procStatus
          /\ werr' \in WaitResults(procStatus)
       \/ /\ werr' = "wait error"
          /\ UNCHANGED ProcessState
    /\ wpc' = "setErr"
    /\ UNCHANGED <<idle, pc, startCallback, wfsResult, ret, callbackCalls, clock, observedExit,
                   launcherLocals, waitErr, waitLock, firedInTime, childVars>>

\* A slip that propagates every error of c.Wait(), exit statuses included
WaitErrAssignAll(e, old) == IF e # "nil" THEN e ELSE old

\* driver.go:160-164: the value of waitErr after the goroutine's if statement
WaitErrAssign(e, old) == IF e # "nil" /\ ~IsExitError(e) THEN e ELSE old

\* driver.go:160-164
WatcherSetErr ==
    /\ wpc = "setErr"
    /\ waitErr' = WaitErrAssign(werr, waitErr)
    /\ wpc' = "close"
    /\ UNCHANGED <<idle, pc, startCallback, wfsResult, ret, callbackCalls, clock, observedExit,
                   launcherLocals, werr, waitLock, ProcessState, firedInTime, childVars>>

\* A slip that returns from the goroutine without closing when c.Wait() failed
WatcherCloseUnlessError ==
    /\ wpc = "close"
    /\ waitLock' = IF werr = "nil" THEN "closed" ELSE waitLock
    /\ firedInTime' = (werr = "nil" /\ pc \in PreReturnPcs /\ clock < Timeout)
    /\ wpc' = "done"
    /\ UNCHANGED <<idle, pc, startCallback, wfsResult, ret, callbackCalls, clock, observedExit,
                   launcherLocals, werr, waitErr, ProcessState, childVars>>

\* driver.go:165
WatcherClose ==
    /\ wpc = "close"
    /\ waitLock' = "closed"
    /\ firedInTime' = (pc \in PreReturnPcs /\ clock < Timeout)
    /\ wpc' = "done"
    /\ UNCHANGED <<idle, pc, startCallback, wfsResult, ret, callbackCalls, clock, observedExit,
                   launcherLocals, werr, waitErr, ProcessState, childVars>>

(***************************************************************************)
(* The child process                                                       *)
(***************************************************************************)
\* The container process started at driver.go:151 exits or is killed by a signal
ChildExit ==
    /\ proc = "running"
    /\ \E s \in Statuses : procStatus' = s
    /\ proc' = "exited"
    /\ exitedInTime' = (clock < Timeout)
    /\ UNCHANGED <<idle, pc, startCallback, wfsResult, ret, callbackCalls, clock, observedExit,
                   launcherLocals, watcherVars>>

(***************************************************************************)
(* driver.Kill, driver.go:191-193 and 219-234                              *)
(***************************************************************************)
Digits == <<"0", "1", "2", "3", "4", "5", "6", "7", "8", "9">>

RECURSIVE NatToString(_)
NatToString(n) ==
    IF n < 10 THEN Digits[n + 1]
    ELSE NatToString(n \div 10) \o Digits[(n % 10) + 1]

\* strconv.Itoa
Itoa(n) == IF n < 0 THEN "-" \o NatToString(-n) ELSE NatToString(n)

\* Signal numbers passed to Kill
Signals == {0, 9, 15}

\* (output, err) pairs of running a signal tool that is installed
ToolResults == [out : {"", "lxc: failed to get the init pid"},
                err : {"nil", "exit status 1"}]

\* exec's result for a tool that is not installed
NotInstalled == [out |-> "", err |-> "executable file not found in $PATH"]

NoKillCall == [id |-> "", sig |-> 0, res |-> [out |-> "", err |-> "unset"]]

InitKill(hosts) ==
    /\ lxcKillFound \in hosts
    /\ lxcStopFound \in hosts
    /\ cmdLog = <<>>
    /\ killCall = NoKillCall
    /\ killRet = "unset"

\* A slip that inverts the fallback: the secondary tool when the primary is found
KillCommandInverted(found, id, sig) ==
    IF ~found
      THEN <<"lxc-kill", "-n", id, Itoa(sig)>>
      ELSE <<"lxc-stop", "-k", "-n", id, Itoa(sig)>>

\* driver.go:224-229: the command line kill runs
KillCommand(found, id, sig) ==
    IF found
      THEN <<"lxc-kill", "-n", id, Itoa(sig)>>
      ELSE <<"lxc-stop", "-k", "-n", id, Itoa(sig)>>

\* A slip that leaves the command's output out of the error
KillErrorNoOutput(res) ==
    IF res.err # "nil" THEN "Err: " \o res.err ELSE "nil"

\* driver.go:230-233: fmt.Errorf("Err: %s Output: %s", err, output), or nil
KillError(res) ==
    IF res.err # "nil"
      THEN "Err: " \o res.err \o " Output: " \o res.out
      ELSE "nil"

\* What running cmd on this host yields when an installed tool would yield res
RunTool(cmd, res) ==
    IF cmd[1] = "lxc-stop" /\ ~lxcStopFound THEN NotInstalled ELSE res

\* driver.go:191-193, 219-234
Kill ==
    /\ Len(cmdLog) < MaxKillCalls
    /\ \E id \in ContainerIDs, sig \in Signals, res \in ToolResults :
          LET cmd == KillCommand(lxcKillFound, id, sig)
              got == RunTool(cmd, res)
          IN  /\ cmdLog' = Append(cmdLog, cmd)
              /\ killCall' = [id |-> id, sig |-> sig, res |-> got]
              /\ killRet' = KillError(got)
    /\ UNCHANGED <<lxcKillFound, lxcStopFound, runVars, infoVars, extra>>

(***************************************************************************)
(* info.IsRunning, driver.go:280-292                                       *)
(***************************************************************************)
Drivers == [root : {"/var/lib/docker"}, apparmor : BOOLEAN, sharedRoot : BOOLEAN]

NoInfoCall == [id |-> "", res |-> NoQuery]

InitInfo(drivers) ==
    /\ driver \in drivers
    /\ queryLog = <<>>
    /\ infoCall = NoInfoCall
    /\ infoRet = FALSE

\* A slip that tests the output of a failed query too
IsRunningResultIgnoringErr(res) == Contains(res.out, "RUNNING")

\* driver.go:283-291: the result of IsRunning for a status query that returned res
IsRunningResult(res) ==
    IF res.err # "nil" THEN FALSE
    ELSE Contains(res.out, "RUNNING")

\* driver.go:280-292
IsRunning ==
    /\ Len(queryLog) < MaxInfoCalls
    /\ \E id \in ContainerIDs, res \in QueryResults :
          /\ queryLog' = Append(queryLog, getInfo(id))
          /\ infoCall' = [id |-> id, res |-> res]
          /\ infoRet' = IsRunningResult(res)
    /\ UNCHANGED <<driver, runVars, killVars, extra>>

(***************************************************************************)
(* driver.Restore, driver.go:195-206                                       *)
(***************************************************************************)
\* The state at the entry of Restore; answers is what the host answers at first
InitRestore(ids, answers) ==
    /\ restoreID \in ids
    /\ rpc = "query"
    /\ routput = ""
    /\ rerr = "nil"
    /\ restoreRet = "unset"
    /\ lxcStatus \in answers
    /\ restoreLast = NoQuery
    /\ restorePolls = 0
    /\ restoreFailures = 0

\* counting up to MaxRestorePolls
CountUp(n) == IF n < MaxRestorePolls THEN n + 1 ELSE n

\* driver.go:197: exec.Command("lxc-info", "-n", c.ID).CombinedOutput()
RestoreQuery ==
    /\ rpc = "query"
    /\ routput' = lxcStatus.out
    /\ rerr' = lxcStatus.err
    /\ restoreLast' = lxcStatus
    /\ restorePolls' = CountUp(restorePolls)
    /\ restoreFailures' = IF lxcStatus.err # "nil" THEN CountUp(restoreFailures)
                                                  ELSE restoreFailures
    /\ rpc' = "check"
    /\ UNCHANGED <<restoreID, restoreRet, lxcStatus, exceptRestore>>

\* A slip that inverts the test: Restore waits while the container is stopped
RestoreDecisionInverted(out, e) ==
    IF e # "nil" THEN "error"
    ELSE IF Contains(out, "RUNNING") THEN "gone"
    ELSE "sleep"

\* driver.go:198-204: what Restore does with the answer of a query
RestoreDecision(out, e) ==
    IF e # "nil" THEN "error"
    ELSE IF ~Contains(out, "RUNNING") THEN "gone"
    ELSE "sleep"

\* driver.go:198-203
RestoreCheck ==
    /\ rpc = "check"
    /\ LET d == RestoreDecision(routput, rerr)
       IN  /\ restoreRet' = IF d = "error" THEN rerr
                            ELSE IF d = "gone" THEN "nil" ELSE restoreRet
           /\ rpc' = IF d = "sleep" THEN "sleep" ELSE "done"
    /\ UNCHANGED <<restoreID, routput, rerr, lxcStatus, restoreLast, restorePolls, restoreFailures,
                   exceptRestore>>

\* driver.go:204: time.Sleep(500 * time.Millisecond)
RestoreSleep ==
    /\ rpc = "sleep"
    /\ rpc' = "query"
    /\ UNCHANGED <<restoreID, routput, rerr, restoreRet, lxcStatus, restoreLast, restorePolls,
                   restoreFailures, exceptRestore>>

\* The container stops or starts, or the status tool breaks or recovers,
\* while Restore is polling
StatusChanges ==
    /\ rpc # "done"
    /\ lxcStatus' \in PollResults \ {lxcStatus}
    /\ UNCHANGED <<restoreID, rpc, routput, rerr, restoreRet, restoreLast, restorePolls,
                   restoreFailures, exceptRestore>>

RestoreStep == RestoreQuery \/ RestoreCheck \/ RestoreSleep

(***************************************************************************)
(* driver.Run: the command line, driver.go:87-149                          *)
(***************************************************************************)
\* c.Network == nil
NoNetwork == [set |-> FALSE, Gateway |-> "", IPAddress |-> "", IPPrefixLen |-> 0, Mtu |-> 0]

Networks == { NoNetwork,
              [set |-> TRUE, Gateway |-> "172.17.42.1", IPAddress |-> "172.17.0.2",
               IPPrefixLen |-> 16, Mtu |-> 1500] }

\* The execdriver.Command values Run is called with
Commands == [ ID : ContainerIDs,
              InitPath : {"/.dockerinit"},
              User : {"", "root", "#1000"},
              Privileged : BOOLEAN,
              WorkingDir : {"", "/my app"},
              Network : Networks,
              Entrypoint : {"/bin/sh"},
              Arguments : {<<>>, <<"-c", "echo 'hi' $HOME">>, <<"", "a\\b">>, <<"#x">>} ]

NoCommand == CHOOSE c \in Commands : TRUE

InitArgs(commands, found) ==
    /\ lookPathFound \in found
    /\ command \in commands
    /\ params = <<>>
    /\ cArgs = <<>>
    /\ cPath = ""

\* path.Join of two clean, non-empty elements
PathJoin(a, b) ==
    IF SubSeq(a, Len(a), Len(a)) = "/" THEN a \o b ELSE a \o "/" \o b

\* driver.go:373: the path generateLXCConfig writes and returns
ConfigPath(d, c) ==
    PathJoin(PathJoin(PathJoin(d.root, "containers"), c.ID), "config.lxc")

\* A slip that picks the unconfined launcher for every privileged container
ProgramNameAnyPrivileged(d, c) ==
    IF c.Privileged THEN PathJoin(d.root, "lxc-start-unconfined") ELSE "lxc-start"

\* driver.go:88 and 109-113: params[0]
ProgramName(d, c) ==
    IF c.Privileged /\ d.apparmor
      THEN PathJoin(d.root, "lxc-start-unconfined")
      ELSE "lxc-start"

\* driver.go:97-103
NetworkFlags(c) ==
    IF c.Network.set
      THEN <<"-g", c.Network.Gateway,
             "-i", c.Network.IPAddress \o "/" \o Itoa(c.Network.IPPrefixLen),
             "-mtu", Itoa(c.Network.Mtu)>>
      ELSE <<>>

\* A slip that passes the user without its flag
UserFlagsBare(c) == IF c.User # "" THEN <<c.User>> ELSE <<>>

\* driver.go:105-107
UserFlags(c) == IF c.User # "" THEN <<"-u", c.User>> ELSE <<>>

\* driver.go:109-115
PrivilegedFlags(c) == IF c.Privileged THEN <<"-privileged">> ELSE <<>>

\* driver.go:117-119
WorkingDirFlags(c) == IF c.WorkingDir # "" THEN <<"-w", c.WorkingDir>> ELSE <<>>

\* driver.go:87-122: params before the shared-root wrapping
Params(d, c) ==
    <<ProgramName(d, c), "-n", c.ID, "-f", ConfigPath(d, c), "--", c.InitPath,
      "-driver", DriverName>>
    \o NetworkFlags(c) \o UserFlags(c) \o PrivilegedFlags(c) \o WorkingDirFlags(c)
    \o <<"--", c.Entrypoint>> \o c.Arguments

\* driver.go:87-122
BuildParams ==
    /\ pc = "params"
    /\ params' = Params(driver, command)
    /\ pc' = "wrap"
    /\ UNCHANGED <<lookPathFound, command, cArgs, cPath, exceptArgs,
                   startCallback, wfsResult, ret, callbackCalls, clock, observedExit,
                   launcherLocals, watcherVars, childVars>>

(***************************************************************************)
(* utils.ShellQuoteArguments, and the word splitting of /bin/sh            *)
(***************************************************************************)
\* the backquote character, taken out of a two-character string
Backquote == SubSeq("`'", 1, 1)

\* the first position from i on where s has one of chars, Len(s) + 1 if none
NextIn(s, i, chars) ==
    IF \E j \in i..Len(s) : SubSeq(s, j, j) \in chars
      THEN CHOOSE j \in i..Len(s) :
               /\ SubSeq(s, j, j) \in chars
               /\ \A k \in i..(j - 1) : SubSeq(s, k, k) \notin chars
      ELSE Len(s) + 1

RECURSIVE QuoteBody(_, _)
\* the characters of word from position i on, every single quote replaced by
\* the four characters: quote, backslash, quote, quote
QuoteBody(word, i) ==
    IF NextIn(word, i, {"'"}) > Len(word) THEN SubSeq(word, i, Len(word))
    ELSE SubSeq(word, i, NextIn(word, i, {"'"}) - 1) \o "'\\''"
         \o QuoteBody(word, NextIn(word, i, {"'"}) + 1)

\* one word, shell-escaped: every word is wrapped in single quotes
ShellQuote(word) == "'" \o QuoteBody(word, 1) \o "'"

RECURSIVE ShellQuoteArguments(_)
\* utils.ShellQuoteArguments(args): the escaped words joined by single spaces
ShellQuoteArguments(args) ==
    IF Len(args) = 0 THEN ""
    ELSE IF Len(args) = 1 THEN ShellQuote(args[1])
    ELSE ShellQuote(args[1]) \o " " \o ShellQuoteArguments(Tail(args))

\* the characters that separate the words of a command
Blanks == {" ", "\t"}

\* Unquoted characters that make /bin/sh do more than read a word: expansions,
\* double quotes, operators, patterns. What they give depends on the
\* environment, so a text with one of them unquoted is not read here.
ShellActive == {"$", "\"", Backquote, "|", "&", ";", "<", ">", "(", ")",
                "*", "?", "[", "~", "{", "!"}

\* where a plain stretch of a word ends
WordBreaks == {"'", "\\", "\n"} \cup Blanks \cup ShellActive

\* the first position from i on where s has none of chars, Len(s) + 1 if none
NextNotIn(s, i, chars) ==
    IF \E j \in i..Len(s) : SubSeq(s, j, j) \notin chars
      THEN CHOOSE j \in i..Len(s) :
               /\ SubSeq(s, j, j) \notin chars
               /\ \A k \in i..(j - 1) : SubSeq(s, k, k) \in chars
      ELSE Len(s) + 1

RECURSIVE ShellWord(_, _, _, _)
\* The word /bin/sh reads from position i of s on. open says whether a
\* character or a quote of the word has been read, cur is what has been read
\* of it. Before the word, blanks and backslash-newline pairs are passed over,
\* and the end of the text, a newline or a # ends the command (a # at the
\* start of a word begins a comment). Inside the word a single-quoted stretch
\* is taken literally, a backslash protects the next character (and removes a
\* newline), a blank or a newline ends the word. The result says whether
\* there is a word, the word, the position after it, and whether it could be
\* read: not when a quote is left open, a backslash ends the text, or an
\* active character stands unquoted.
ShellWord(s, i, cur, open) ==
    IF i > Len(s) \/ SubSeq(s, i, i) = "\n"
      THEN [word |-> open, text |-> cur, end |-> i, ok |-> TRUE]
    ELSE IF SubSeq(s, i, i) \in Blanks
      THEN IF open THEN [word |-> TRUE, text |-> cur, end |-> i, ok |-> TRUE]
           ELSE ShellWord(s, NextNotIn(s, i, Blanks), cur, FALSE)
    ELSE IF SubSeq(s, i, i) = "#" /\ ~open
      THEN [word |-> FALSE, text |-> cur, end |-> i, ok |-> TRUE]
    ELSE IF SubSeq(s, i, i) = "'"
      THEN IF NextIn(s, i + 1, {"'"}) > Len(s)
             THEN [word |-> TRUE, text |-> cur, end |-> Len(s) + 1, ok |-> FALSE]
             ELSE ShellWord(s, NextIn(s, i + 1, {"'"}) + 1,
                            cur \o SubSeq(s, i + 1, NextIn(s, i + 1, {"'"}) - 1), TRUE)
    ELSE IF SubSeq(s, i, i) = "\\"
      THEN IF i = Len(s)
             THEN [word |-> TRUE, text |-> cur, end |-> Len(s) + 1, ok |-> FALSE]
           ELSE IF SubSeq(s, i + 1, i + 1) = "\n" THEN ShellWord(s, i + 2, cur, open)
           ELSE ShellWord(s, i + 2, cur \o SubSeq(s, i + 1, i + 1), TRUE)
    ELSE IF SubSeq(s, i, i) \in ShellActive
      THEN [word |-> TRUE, text |-> cur, end |-> i, ok |-> FALSE]
    ELSE ShellWord(s, NextIn(s, i + 1, WordBreaks),
                   cur \o SubSeq(s, i, NextIn(s, i + 1, WordBreaks) - 1), TRUE)

RECURSIVE ShellWords(_, _)
\* The words of the command /bin/sh reads from position i of s on, up to the
\* end of the command or the first word it cannot read
ShellWords(s, i) ==
    IF ~ShellWord(s, i, "", FALSE).word \/ ~ShellWord(s, i, "", FALSE).ok THEN <<>>
    ELSE <<ShellWord(s, i, "", FALSE).text>>
         \o ShellWords(s, ShellWord(s, i, "", FALSE).end)

RECURSIVE ShellReadsFrom(_, _)
\* every word of the command from position i of s on can be read
ShellReadsFrom(s, i) ==
    IF ~ShellWord(s, i, "", FALSE).word THEN TRUE
    ELSE /\ ShellWord(s, i, "", FALSE).ok
         /\ ShellReadsFrom(s, ShellWord(s, i, "", FALSE).end)

\* s is a command of plain and single-quoted words only, whose words do not
\* depend on the environment
ShellReads(s) == ShellReadsFrom(s, 1)

\* the words of the command /bin/sh reads from s, for a text ShellReads holds of
ShellSplit(s) == ShellWords(s, 1)

(***************************************************************************)
(* driver.Run: the shared-root wrapping and c.Path / c.Args, 124-149       *)
(***************************************************************************)
ShellPrologue == "mount --make-rslave /; exec "

RECURSIVE JoinSpaces(_)
\* strings.Join(ps, " ")
JoinSpaces(ps) ==
    IF Len(ps) = 0 THEN ""
    ELSE IF Len(ps) = 1 THEN ps[1]
    ELSE ps[1] \o " " \o JoinSpaces(Tail(ps))

\* A slip that joins the words with spaces and escapes none of them
ShellStringUnquoted(ps) == ShellPrologue \o JoinSpaces(ps)

\* driver.go:131-133
ShellString(ps) == ShellPrologue \o ShellQuoteArguments(ps)

\* driver.go:124-138: params after the shared-root wrapping
Wrap(d, ps) ==
    IF d.sharedRoot
      THEN <<"unshare", "-m", "--", "/bin/sh", "-c", ShellString(ps)>>
      ELSE ps

\* strings.Contains(name, "/")
HasSlash(name) == \E i \in 1..Len(name) : SubSeq(name, i, i) = "/"

\* driver.go:144-147: aname, the result of exec.LookPath(name) or, on its
\* error, name. LookPath searches the directories of PATH only for a name
\* without a slash; a name with a slash is returned as it is or not found.
LookPathOrName(name, found) ==
    IF HasSlash(name) THEN name
    ELSE IF found THEN "/usr/bin/" \o name
    ELSE name

\* driver.go:140-149: name, arg, exec.LookPath(name), c.Path and c.Args
WrapAndSetArgs ==
    /\ pc = "wrap"
    /\ LET wrapped == Wrap(driver, params)
           name == wrapped[1]
           arg == Tail(wrapped)
       IN  /\ cPath' = LookPathOrName(name, lookPathFound)
           /\ cArgs' = <<name>> \o arg
    /\ pc' = "Start"
    /\ UNCHANGED <<lookPathFound, command, params, exceptArgs,
                   startCallback, wfsResult, ret, callbackCalls, clock, observedExit,
                   launcherLocals, watcherVars, childVars>>

(***************************************************************************)
(* driver.GetPidsForContainer, driver.go:301-338                           *)
(***************************************************************************)
MaxLines == 3

\* GetPidsForContainer not called
NoPids == [called |-> FALSE, id |-> "", pids |-> <<>>, err |-> "nil"]

\* the lines a tasks file is made of
TaskLines == {"123", "456", "", "abc", " ", "-7"}

RECURSIVE JoinLines(_)
JoinLines(lines) ==
    IF Len(lines) = 0 THEN ""
    ELSE IF Len(lines) = 1 THEN lines[1]
    ELSE lines[1] \o "\n" \o JoinLines(Tail(lines))

\* file contents of up to MaxLines lines, with and without a final newline
TaskContents ==
    { JoinLines(ls) \o nl :
        ls \in UNION { [1..n -> TaskLines] : n \in 0..MaxLines }, nl \in {"", "\n"} }

\* The host: the errors of the cgroup lookups (307-315), where the tasks file
\* is (317-321), and what it holds
TaskFiles == [ cgroup : {"nil", "mountpoint error", "cgroup dir error"},
               where : {"id", "lxc/id", "absent"},
               content : TaskContents ]

NoTasks == [cgroup |-> "nil", where |-> "absent", content |-> ""]

InitPids(files) ==
    /\ tasksFile \in files
    /\ pidsRet = NoPids

RECURSIVE Split(_, _, _)
\* strings.Split(s, sep) for a one-character sep, from position i on
Split(s, i, sep) ==
    LET j == NextIn(s, i, {sep})
    IN  IF j > Len(s) THEN <<SubSeq(s, i, Len(s))>>
        ELSE <<SubSeq(s, i, j - 1)>> \o Split(s, j + 1, sep)

IsDigit(ch) == \E k \in 1..10 : Digits[k] = ch

DigitValue(ch) == (CHOOSE k \in 1..10 : Digits[k] = ch) - 1

\* the digits of a decimal literal, its sign taken off
Unsigned(p) ==
    IF p # "" /\ SubSeq(p, 1, 1) \in {"+", "-"} THEN SubSeq(p, 2, Len(p)) ELSE p

RECURSIVE NatValue(_, _)
\* the value of the first n digits of ds
NatValue(ds, n) ==
    IF n = 0 THEN 0 ELSE NatValue(ds, n - 1) * 10 + DigitValue(SubSeq(ds, n, n))

\* strconv.Atoi(p) succeeds: an optional sign and one or more digits (of a
\* size a pid has)
AtoiOk(p) ==
    /\ Unsigned(p) # ""
    /\ \A k \in 1..Len(Unsigned(p)) : IsDigit(SubSeq(Unsigned(p), k, k))

\* strconv.Atoi(p) when it succeeds
Atoi(p) ==
    IF SubSeq(p, 1, 1) = "-" THEN 0 - NatValue(Unsigned(p), Len(Unsigned(p)))
    ELSE NatValue(Unsigned(p), Len(Unsigned(p)))

\* the error of strconv.Atoi(p) when it fails, as %s prints it
AtoiError(p) == "strconv.ParseInt: parsing \"" \o p \o "\": invalid syntax"

RECURSIVE ParsePidsLenient(_, _, _)
\* A slip that skips the lines that are no integers
ParsePidsLenient(lines, i, pids) ==
    IF i > Len(lines) THEN [pids |-> pids, err |-> "nil"]
    ELSE IF ~AtoiOk(lines[i]) THEN ParsePidsLenient(lines, i + 1, pids)
    ELSE ParsePidsLenient(lines, i + 1, Append(pids, Atoi(lines[i])))

RECURSIVE ParsePids(_, _, _)
\* driver.go:327-337: the loop over the lines, from line i on
ParsePids(lines, i, pids) ==
    IF i > Len(lines) THEN [pids |-> pids, err |-> "nil"]
    ELSE IF Len(lines[i]) = 0 THEN ParsePids(lines, i + 1, pids)
    ELSE IF ~AtoiOk(lines[i])
      THEN [pids |-> pids,
            err |-> "Invalid pid '" \o lines[i] \o "': " \o AtoiError(lines[i])]
    ELSE ParsePids(lines, i + 1, Append(pids, Atoi(lines[i])))

\* driver.go:301-338
GetPidsResult(file) ==
    IF file.cgroup # "nil" THEN [pids |-> <<>>, err |-> file.cgroup]
    ELSE IF file.where = "absent" THEN [pids |-> <<>>, err |-> "read error"]
    ELSE ParsePids(Split(file.content, 1, "\n"), 1, <<>>)

GetPidsForContainer ==
    /\ ~pidsRet.called
    /\ \E id \in ContainerIDs :
          pidsRet' = [called |-> TRUE, id |-> id,
                      pids |-> GetPidsResult(tasksFile).pids,
                      err |-> GetPidsResult(tasksFile).err]
    /\ UNCHANGED <<tasksFile, exceptPids>>

(***************************************************************************)
(* NewDriver, driver.go:62-72 and 340-370                                  *)
(***************************************************************************)
NoDriver == [status |-> "unset", err |-> "nil", root |-> "", apparmor |-> FALSE,
             sharedRoot |-> FALSE]

MaxMountLines == 2

\* ioutil.ReadFile("/proc/self/mountinfo") fails
NoFile == [readable |-> FALSE, content |-> ""]

\* lines of a mount table: / shared, / private, another mount point, a line
\* cut off after its sixth column, a line of three columns
MountLines == { "15 1 8:1 / / rw shared:1 - ext4 sda rw",
                "15 1 8:1 / / rw - ext4 sda rw",
                "16 15 0:3 / /proc rw shared:5 - proc proc rw",
                "15 1 8:1 / / rw",
                "15 1 8:1" }

\* mount tables of up to MaxMountLines lines, each line ended by a newline
MountTables ==
    { [readable |-> TRUE, content |-> JoinLines(ls \o <<"">>)] :
        ls \in UNION { [1..n -> MountLines] : n \in 0..MaxMountLines } }
    \cup {NoFile}

\* what linkLxcStart returns (driver.go:340-355)
LinkErrs == {"nil", "lxc-start not found", "symlink error"}

InitMount(tables, linkErrs) ==
    /\ mountinfo \in tables
    /\ linkErr \in linkErrs
    /\ newDriverRet = NoDriver

\* strings.HasPrefix
HasPrefix(s, prefix) ==
    Len(s) >= Len(prefix) /\ SubSeq(s, 1, Len(prefix)) = prefix

RECURSIVE ScanMounts(_, _)
\* driver.go:360-365: the loop over the lines, from line i on. cols[k] of the
\* code is cols[k + 1] here; indexing past the end of a slice panics.
ScanMounts(lines, i) ==
    IF i > Len(lines) THEN "true"
    ELSE LET cols == Split(lines[i], 1, " ")
         IN  IF Len(cols) >= 6 /\ cols[5] = "/"
               THEN IF Len(cols) < 7 THEN "panic"
                    ELSE IF HasPrefix(cols[7], "shared") THEN "true" ELSE "false"
               ELSE ScanMounts(lines, i + 1)

\* driver.go:358-370: "true", "false", or "panic" for an index out of range
rootIsShared(file) ==
    IF file.readable THEN ScanMounts(Split(file.content, 1, "\n"), 1) ELSE "true"

\* driver.go:62-72
NewDriver ==
    /\ newDriverRet.status = "unset"
    /\ \E root \in {"/var/lib/docker"}, apparmor \in BOOLEAN :
          newDriverRet' =
            IF linkErr # "nil"
              THEN [status |-> "error", err |-> linkErr, root |-> "",
                    apparmor |-> FALSE, sharedRoot |-> FALSE]
            ELSE IF rootIsShared(mountinfo) = "panic"
              THEN [status |-> "panic", err |-> "index out of range", root |-> "",
                    apparmor |-> FALSE, sharedRoot |-> FALSE]
            ELSE [status |-> "ok", err |-> "nil", root |-> root,
                  apparmor |-> apparmor,
                  sharedRoot |-> (rootIsShared(mountinfo) = "true")]
    /\ UNCHANGED <<mountinfo, linkErr, exceptMount>>

(***************************************************************************)
(* Specifications                                                          *)
(***************************************************************************)
DefaultDriver == [root |-> "/var/lib/docker", apparmor |-> FALSE, sharedRoot |-> FALSE]

\* A host whose status tool answers RUNNING
RunningAnswer == [out |-> "state: RUNNING", err |-> "nil"]

\* The operations other than Run, Kill and IsRunning, not called
InitQuiet == InitPids({NoTasks}) /\ InitMount({NoFile}, {"nil"})

InitExtra == InitRestore({"c1"}, {RunningAnswer}) /\ InitArgs({NoCommand}, {TRUE}) /\ InitQuiet

Init == InitRun({"nil", "fn"}) /\ InitKill({TRUE}) /\ InitInfo({DefaultDriver}) /\ InitExtra

Next ==
    \/ SetTerminal \/ GenerateLXCConfig \/ BuildParams \/ WrapAndSetArgs
    \/ Start \/ SpawnWatcher
    \/ EnterWaitForStart \/ LoopHead \/ Select \/ GetInfo \/ Retry
    \/ CheckRunning \/ Sleep \/ CheckStart \/ Callback \/ Recv \/ Return
    \/ WatcherWait \/ WatcherSetErr \/ WatcherClose
    \/ ChildExit
    \/ TimePasses

Spec == Init /\ [][Next]_vars

InitK == InitRun({"fn"}) /\ InitKill(BOOLEAN) /\ InitInfo({DefaultDriver}) /\ InitExtra

NextKill == Kill

SpecKill == InitK /\ [][NextKill]_vars

InitI == InitRun({"fn"}) /\ InitKill({TRUE}) /\ InitInfo(Drivers) /\ InitExtra

NextInfo == IsRunning

SpecInfo == InitI /\ [][NextInfo]_vars

InitR == /\ InitRun({"fn"}) /\ InitKill({TRUE}) /\ InitInfo({DefaultDriver})
         /\ InitRestore(ContainerIDs, PollResults) /\ InitArgs({NoCommand}, {TRUE})
         /\ InitQuiet

NextRestore == RestoreQuery \/ RestoreCheck \/ RestoreSleep \/ StatusChanges

\* Restore runs on its caller's goroutine, which the scheduler keeps running
SpecRestore == InitR /\ [][NextRestore]_vars /\ WF_vars(RestoreStep)

\* Run up to c.Start(), for every driver and every command
InitA == /\ InitRun({"fn"}) /\ InitKill({TRUE}) /\ InitInfo(Drivers)
         /\ InitRestore({"c1"}, {RunningAnswer}) /\ InitArgs(Commands, BOOLEAN)
         /\ InitQuiet

NextArgs == SetTerminal \/ GenerateLXCConfig \/ BuildParams \/ WrapAndSetArgs \/ Start

SpecArgs == InitA /\ [][NextArgs]_vars

\* NewDriver on every mount table
InitM == /\ InitRun({"fn"}) /\ InitKill({TRUE}) /\ InitInfo({DefaultDriver})
         /\ InitRestore({"c1"}, {RunningAnswer}) /\ InitArgs({NoCommand}, {TRUE})
         /\ InitPids({NoTasks}) /\ InitMount(MountTables, LinkErrs)

NextMount == NewDriver

SpecMount == InitM /\ [][NextMount]_vars

\* The steps of the launching thread and of the exit-watcher goroutine
LauncherStep ==
    \/ SetTerminal \/ GenerateLXCConfig \/ BuildParams \/ WrapAndSetArgs
    \/ Start \/ SpawnWatcher
    \/ EnterWaitForStart \/ LoopHead \/ Select \/ GetInfo \/ Retry
    \/ CheckRunning \/ Sleep \/ CheckStart \/ Callback \/ Recv \/ Return

WatcherStep == WatcherWait \/ WatcherSetErr \/ WatcherClose

\* Run on a host without delays: the clock advances by the sleeps of the poll
\* loop only
NextLive ==
    \/ SetTerminal \/ GenerateLXCConfig \/ BuildParams \/ WrapAndSetArgs
    \/ Start \/ SpawnWatcher
    \/ EnterWaitForStart \/ LoopHead \/ Select \/ GetInfo \/ Retry
    \/ CheckRunning \/ Sleep \/ CheckStart \/ Callback \/ Recv \/ Return
    \/ WatcherWait \/ WatcherSetErr \/ WatcherClose
    \/ ChildExit

\* Run with both threads scheduled fairly: a thread that can take a step
\* eventually takes one. The child is under no obligation to exit.
SpecLive == Init /\ [][NextLive]_vars /\ WF_vars(LauncherStep) /\ WF_vars(WatcherStep)

\* GetPidsForContainer on every tasks file
InitP == /\ InitRun({"fn"}) /\ InitKill({TRUE}) /\ InitInfo({DefaultDriver})
         /\ InitRestore({"c1"}, {RunningAnswer}) /\ InitArgs({NoCommand}, {TRUE})
         /\ InitPids(TaskFiles) /\ InitMount({NoFile}, {"nil"})

NextPids == GetPidsForContainer

SpecPids == InitP /\ [][NextPids]_vars

(***************************************************************************)
(* Properties of driver.Run (checked under Spec)                           *)
(***************************************************************************)
RunReturned == pc = "done"
WfsReturned == wfsResult # "unset"

\* C1: if waitLock is closed while waitForStart is still running and less than
\* Timeout has elapsed since its entry, waitForStart returns nil, whatever the
\* status queries answered.
C1_FiredInTimeReturnsNil ==
    (WfsReturned /\ firedInTime) => wfsResult = "nil"

\* C2: the start callback is never invoked once waitForStart has taken its
\* `case <-waitLock` branch, i.e. once the launching thread has seen the
\* container exited.
C2_NoCallbackAfterObservedExit ==
    observedExit => callbackCalls = 0

\* C2 (amended): the start callback is never invoked once Run has got past its
\* final receive from waitLock (driver.go:177), nor after Run has returned.
C2_NoCallbackAfterFinalWait ==
    [][(pc \in {"return", "done"}) => (callbackCalls' = callbackCalls)]_vars

\* C2 witness: the waitLock branch was taken, the callback ran, Run returned.
C2_Witness ==
    RunReturned /\ observedExit /\ callbackCalls = 1 /\ ret.err = "nil"

\* C3: with a non-nil callback, the callback is invoked at most once; it has been
\* invoked exactly once whenever Run is at or past its final receive after a nil
\* waitForStart; it has not been invoked before waitForStart returned nil and
\* Run reached the call; it is never invoked when terminal setup, config
\* synthesis, launch or start confirmation failed.
C3_CallbackExactlyOnce ==
    startCallback # "nil" =>
        /\ callbackCalls \in {0, 1}
        /\ (pc \in {"recv", "return"} => callbackCalls = 1 /\ wfsResult = "nil")
        /\ (RunReturned /\ wfsResult = "nil" => callbackCalls = 1)
        /\ (callbackCalls = 1 => wfsResult = "nil")
        /\ (pc \in PreReturnPcs \cup {"checkStart", "callback"} => callbackCalls = 0)
        /\ (RunReturned /\ wfsResult # "nil" => callbackCalls = 0 /\ ret.code = -1)

\* C3 witness: a run with a callback that was confirmed, called back and returned.
C3_Witness ==
    RunReturned /\ startCallback = "fn" /\ callbackCalls = 1 /\ wfsResult = "nil"

\* The child exited while less than Timeout had elapsed since waitForStart's entry
ExitedWithinTimeout == proc = "exited" /\ exitedInTime

\* C4: if every status query succeeded, none contained "RUNNING" and the child
\* did not exit within Timeout of waitForStart's entry, waitForStart returns
\* ErrNotRunning and Run returns (-1, ErrNotRunning); ErrNotRunning is never
\* returned before Timeout has elapsed.
C4_TimeoutWhenNoExitWithinTimeout ==
    /\ (WfsReturned /\ ~queryFailed /\ ~sawRunning /\ ~ExitedWithinTimeout)
          => wfsResult = ErrNotRunning
    /\ (RunReturned /\ WfsReturned /\ ~queryFailed /\ ~sawRunning /\ ~ExitedWithinTimeout)
          => ret = [code |-> -1, err |-> ErrNotRunning]
    /\ (wfsResult = ErrNotRunning => clock >= Timeout)

\* C4 (amended): if every status query succeeded, none contained "RUNNING" and
\* the child has not exited when waitForStart returns, waitForStart returns
\* ErrNotRunning and Run then returns (-1, ErrNotRunning); ErrNotRunning is
\* never returned before Timeout has elapsed.
C4_TimeoutWhenNoExitBeforeReturn ==
    /\ [][(pc \in WfsPcs /\ pc' = "checkStart" /\ ~queryFailed' /\ ~sawRunning'
             /\ proc = "running")
          => (wfsResult' = ErrNotRunning)]_vars
    /\ [](RunReturned /\ wfsResult = ErrNotRunning
             => ret = [code |-> -1, err |-> ErrNotRunning])
    /\ [](wfsResult = ErrNotRunning => clock >= Timeout)

\* C4 witness: Run returned the timeout while the child was still running and
\* every query had succeeded.
C4_Witness ==
    /\ RunReturned /\ ret = [code |-> -1, err |-> ErrNotRunning]
    /\ proc = "running" /\ ~queryFailed /\ lastQuery.err = "nil"

\* C5: after a confirmed start, when c.Wait() returned nil or an exit-status
\* error Run returns the child's exit status with a nil error; the error Run
\* returns on this path is non-nil only when c.Wait() returned an error that is
\* not an exit-status error, and then it is that error.
C5_ExitCodeWithNilError ==
    (RunReturned /\ wfsResult = "nil") =>
        /\ (werr \in {"nil", "ExitError"} /\ proc = "exited"
               => ret = [code |-> ExitStatus(procStatus), err |-> "nil"])
        /\ (ret.err # "nil" => werr \notin {"nil", "ExitError"} /\ ret.err = werr)

\* C5 witness: a confirmed start whose child exited non-zero: (1, nil).
C5_Witness ==
    /\ RunReturned /\ wfsResult = "nil" /\ procStatus = [kind |-> "exited", code |-> 1]
    /\ ret = [code |-> 1, err |-> "nil"]

\* C6: in a poll iteration a failed status query is retried exactly once, at
\* once and with no sleep in between; when the retry succeeds its output is the
\* one tested for "RUNNING" and the iteration goes on as usual; when the retry
\* fails too, waitForStart returns the retry's error at once and Run returns
\* (-1, that error) without invoking the callback.
C6_RetryOnceThenEscalate ==
    /\ [](iterQueries \in {0, 1, 2})
    /\ [](pc = "retry" => iterQueries = 1 /\ lastQuery.err # "nil")
    /\ [](pc = "contains" => lastQuery.err = "nil" /\ output = lastQuery.out)
    /\ [][(pc = "getInfo" /\ pc' # pc /\ lastQuery'.err # "nil")
          => (pc' = "retry" /\ clock' = clock /\ wfsResult' = "unset")]_vars
    /\ [][(pc = "retry" /\ pc' # pc)
          => /\ iterQueries' = 2
             /\ clock' = clock
             /\ IF lastQuery'.err # "nil"
                  THEN pc' = "checkStart" /\ wfsResult' = lastQuery'.err
                  ELSE pc' = "contains" /\ wfsResult' = "unset"]_vars
    /\ [][(pc = "contains" /\ pc' # pc /\ ~Contains(lastQuery.out, "RUNNING"))
          => (pc' = "sleep" /\ wfsResult' = "unset")]_vars
    /\ [](RunReturned /\ wfsResult \in QueryErrs
            => ret = [code |-> -1, err |-> wfsResult] /\ callbackCalls = 0)

\* C6 witness: the first query of an iteration failed and the retry succeeded.
C6_Witness ==
    pc = "contains" /\ iterQueries = 2 /\ queryFailed /\ lastQuery.err = "nil"

\* The launching thread's step out of the poll loop on a timeout, or Run's
\* return of that timeout
TimeoutStep ==
    \/ pc = "loopHead" /\ pc' = "checkStart"
    \/ pc = "checkStart" /\ wfsResult = ErrNotRunning /\ pc' # pc

\* C7: on a start-confirmation timeout Run returns (-1, ErrNotRunning) and the
\* steps that do so leave the child, its recorded state, the completion
\* indicator, the watcher and the signal tools alone; Run never reaches its
\* receive from waitLock on that path.
C7_TimeoutLeavesChildAlone ==
    /\ [][TimeoutStep
          => UNCHANGED <<proc, procStatus, ProcessState, waitLock, waitErr, wpc, cmdLog>>]_vars
    /\ [][(pc = "checkStart" /\ wfsResult = ErrNotRunning /\ pc' # pc)
          => (pc' = "done" /\ ret' = [code |-> -1, err |-> ErrNotRunning])]_vars
    /\ [](wfsResult = ErrNotRunning => pc \in {"checkStart", "done"})

\* C7 witness: Run has returned the timeout while the child is still running
\* and nobody has waited for it.
C7_Witness ==
    /\ RunReturned /\ ret.err = ErrNotRunning
    /\ proc = "running" /\ waitLock = "open" /\ wpc = "Wait"

(***************************************************************************)
(* Properties of driver.Kill (checked under SpecKill)                      *)
(***************************************************************************)
\* Decimal text of the signal numbers, written out
SignalText == (0 :> "0") @@ (9 :> "9") @@ (15 :> "15")

KillCalled == cmdLog # <<>>
LastCmd == cmdLog[Len(cmdLog)]
KillFailed == KillCalled /\ killRet # "nil"

\* C8: every Kill call runs exactly one command: `lxc-kill -n <ID> <sig>` when
\* lxc-kill is found and `lxc-stop -k -n <ID> <sig>` otherwise; it returns nil
\* iff that command ended without error, and otherwise an error whose text
\* holds both the command's error and its combined output.
C8_OneToolPerCall ==
    /\ [][Len(cmdLog') = Len(cmdLog) + 1]_vars
    /\ [](KillCalled =>
            /\ LastCmd = IF lxcKillFound
                           THEN <<"lxc-kill", "-n", killCall.id, SignalText[killCall.sig]>>
                           ELSE <<"lxc-stop", "-k", "-n", killCall.id, SignalText[killCall.sig]>>
            /\ (killRet = "nil") <=> (killCall.res.err = "nil")
            /\ (killRet # "nil" =>
                  /\ Contains(killRet, killCall.res.err)
                  /\ Contains(killRet, killCall.res.out)
                  /\ killRet = "Err: " \o killCall.res.err \o " Output: " \o killCall.res.out))

\* C8 witness: the fallback tool ran, failed with output, and Kill returned an error.
C8_Witness ==
    /\ KillFailed /\ ~lxcKillFound /\ lxcStopFound
    /\ LastCmd[1] = "lxc-stop" /\ killCall.res.out # ""

\* C9: whenever Kill returns an error, the primary tool was absent or failed,
\* and the secondary tool was absent or was attempted and failed.
C9_ErrorOnlyWhenBothFailed ==
    KillFailed =>
        /\ (~lxcKillFound \/ (LastCmd[1] = "lxc-kill" /\ killCall.res.err # "nil"))
        /\ (~lxcStopFound \/ (LastCmd[1] = "lxc-stop" /\ killCall.res.err # "nil"))

\* C9 (amended): whenever Kill returns an error, the one tool it chose failed:
\* the primary tool when it is found, and then the secondary tool is not
\* attempted at all; the secondary tool when the primary is absent, and then it
\* was either absent itself or attempted and failed.
C9_ErrorWhenChosenToolFailed ==
    /\ (KillFailed =>
          /\ killCall.res.err # "nil"
          /\ (lxcKillFound => LastCmd[1] = "lxc-kill")
          /\ (~lxcKillFound => LastCmd[1] = "lxc-stop")
          /\ (~lxcKillFound /\ ~lxcStopFound => killCall.res = NotInstalled))
    /\ (lxcKillFound => \A i \in 1..Len(cmdLog) : cmdLog[i][1] # "lxc-stop")

\* C9 witness: both tools are installed, the primary failed, Kill returned an error.
C9_Witness ==
    KillFailed /\ lxcKillFound /\ lxcStopFound /\ LastCmd[1] = "lxc-kill"

(***************************************************************************)
(* Properties of info.IsRunning (checked under SpecInfo)                   *)
(***************************************************************************)
InfoCalled == queryLog # <<>>

\* C10: every IsRunning call issues exactly one status query, `lxc-info -s -n
\* <ID>`; it returns true iff that query succeeded and its output contains
\* "RUNNING", so false when the query failed; it leaves the driver and the
\* container's state as they were.
C10_IsRunningOneQuery ==
    /\ [][/\ Len(queryLog') = Len(queryLog) + 1
          /\ queryLog'[Len(queryLog')] = <<"lxc-info", "-s", "-n", infoCall'.id>>
          /\ UNCHANGED <<driver, runVars, killVars>>]_vars
    /\ [](InfoCalled =>
            /\ infoRet \in BOOLEAN
            /\ infoRet <=> (infoCall.res = [out |-> "state: RUNNING", err |-> "nil"])
            /\ (infoCall.res.err # "nil" => infoRet = FALSE))

\* C10 witness: the query failed although its output says RUNNING; the answer is false.
C10_Witness ==
    /\ InfoCalled /\ infoCall.res.err # "nil"
    /\ infoCall.res.out = "state: RUNNING" /\ infoRet = FALSE

(***************************************************************************)
(* Properties of driver.Restore (checked under SpecRestore)                *)
(***************************************************************************)
RestoreReturned == rpc = "done"
AnswersRunning(r) == r.err = "nil" /\ r.out = "state: RUNNING"

\* C11: Restore returns nil only right after a successful status query whose
\* output does not contain "RUNNING"; it returns the error of the first failed
\* query, which is not retried; after a successful query that reports
\* "RUNNING" it does not return but sleeps and polls again, however many polls
\* came before; and if from some point on the status tool no longer answers
\* RUNNING (it reports another state or fails), Restore eventually returns.
C11_RestoreReturns ==
    /\ [][(restoreRet' = "nil" /\ restoreRet # "nil")
          => (rpc = "check" /\ rpc' = "done" /\ restoreLast.err = "nil"
              /\ restoreLast.out = "state: STOPPED")]_vars
    /\ [][(rpc = "check" /\ rpc' # rpc /\ restoreLast.err # "nil")
          => (rpc' = "done" /\ restoreRet' = restoreLast.err)]_vars
    /\ [](restoreFailures \in {0, 1})
    /\ [](restoreFailures = 1 => rpc \in {"check", "done"} /\ restoreLast.err # "nil")
    /\ [][(rpc = "check" /\ rpc' # rpc /\ AnswersRunning(restoreLast))
          => (rpc' = "sleep" /\ restoreRet' = "unset")]_vars
    /\ [](RestoreReturned => ~AnswersRunning(restoreLast) /\ restoreRet # "unset")
    /\ [](~RestoreReturned => restoreRet = "unset")
    /\ (<>[](~AnswersRunning(lxcStatus)) => <>RestoreReturned)

\* C11 witness: Restore polled a RUNNING container MaxRestorePolls times and
\* then returned nil once the container was reported stopped.
C11_Witness ==
    /\ RestoreReturned /\ restoreRet = "nil" /\ restorePolls = MaxRestorePolls
    /\ restoreLast = [out |-> "state: STOPPED", err |-> "nil"]

(***************************************************************************)
(* Claims about the command line Run builds                                *)
(***************************************************************************)
\* Run has got past line 122, where params is complete
ParamsBuilt ==
    /\ pc \notin {"SetTerminal", "generateLXCConfig", "params"}
    /\ ~(pc = "done" /\ ret.err \in {"terminal error", "create error", "template error"})

\* Run has got past line 149, where c.Path and c.Args are set
ArgsSet == ParamsBuilt /\ pc # "wrap"

FixedPrefix ==
    <<"lxc-start", "-n", command.ID, "-f",
      driver.root \o "/containers/" \o command.ID \o "/config.lxc",
      "--", command.InitPath, "-driver", "lxc">>

FixedSuffix == <<"--", command.Entrypoint>> \o command.Arguments

NoNetworkNoPrivilege == ~command.Network.set /\ ~command.Privileged

\* C12 as stated: with no network configuration and Privileged false, whatever
\* the user and working directory, the vector is the fixed prefix directly
\* followed by the fixed suffix.
C12_OnlyPrefixAndSuffix ==
    (ParamsBuilt /\ NoNetworkNoPrivilege) => params = FixedPrefix \o FixedSuffix

\* C12 amended: with no network configuration and Privileged false, the vector
\* is the fixed prefix, then -u and the user iff the user is non-empty, then -w
\* and the working directory iff it is non-empty, then the fixed suffix; it is
\* the prefix directly followed by the suffix exactly when both are empty.
C12_PrefixUserWorkdirSuffix ==
    (ParamsBuilt /\ NoNetworkNoPrivilege) =>
        /\ params = FixedPrefix
                     \o (IF command.User = "" THEN <<>> ELSE <<"-u", command.User>>)
                     \o (IF command.WorkingDir = "" THEN <<>>
                         ELSE <<"-w", command.WorkingDir>>)
                     \o FixedSuffix
        /\ (params = FixedPrefix \o FixedSuffix)
               <=> (command.User = "" /\ command.WorkingDir = "")

C12_Witness ==
    /\ proc = "running" /\ NoNetworkNoPrivilege
    /\ command.User = "root" /\ command.WorkingDir = "/my app"
    /\ Len(command.Arguments) = 2
    /\ Len(params) = 17

\* the flags the claim lists between the fixed prefix and the fixed suffix
ExpectedNetwork ==
    IF command.Network.set
      THEN <<"-g", command.Network.Gateway, "-i",
             command.Network.IPAddress \o "/" \o Itoa(command.Network.IPPrefixLen),
             "-mtu", Itoa(command.Network.Mtu)>>
      ELSE <<>>

ExpectedOptional ==
    ExpectedNetwork
    \o (IF command.User = "" THEN <<>> ELSE <<"-u", command.User>>)
    \o (IF command.Privileged THEN <<"-privileged">> ELSE <<>>)
    \o (IF command.WorkingDir = "" THEN <<>> ELSE <<"-w", command.WorkingDir>>)

\* C13: the vector is the program name, -n ID, -f configPath, --, initPath,
\* -driver lxc, the network flags iff a network configuration is present, -u
\* user iff non-empty, -privileged iff privileged, -w workdir iff non-empty,
\* then --, the entrypoint and the arguments; the program name is
\* <root>/lxc-start-unconfined iff privileged with apparmor, else lxc-start.
C13_ArgumentVectorOrder ==
    ParamsBuilt =>
        /\ Tail(params) = Tail(FixedPrefix) \o ExpectedOptional \o FixedSuffix
        /\ params[1] \in {"lxc-start", driver.root \o "/lxc-start-unconfined"}
        /\ (params[1] = driver.root \o "/lxc-start-unconfined")
               <=> (command.Privileged /\ driver.apparmor)
        /\ command.Network.set =>
               SubSeq(params, 10, 15) =
                   <<"-g", "172.17.42.1", "-i", "172.17.0.2/16", "-mtu", "1500">>

C13_Witness ==
    /\ proc = "running"
    /\ command.Network.set /\ command.Privileged /\ driver.apparmor
    /\ command.User = "root" /\ command.WorkingDir = "/my app"
    /\ params[1] = "/var/lib/docker/lxc-start-unconfined"
    /\ Len(params) = 9 + 6 + 2 + 1 + 2 + 2 + Len(command.Arguments)

\* the text after the mount prologue in the shell string Run started
QuotedText == SubSeq(cArgs[6], Len(ShellPrologue) + 1, Len(cArgs[6]))

\* C14: with sharedRoot the command started is unshare -m -- /bin/sh -c
\* shellString, shellString being the mount prologue followed by a quoted text
\* that the shell splits back into exactly the unwrapped vector; without
\* sharedRoot the unwrapped vector is started as it is. The program started
\* is the first word, found on the search path when it is a bare name.
C14_WrapperRoundTrip ==
    ArgsSet =>
        IF driver.sharedRoot
          THEN /\ Len(cArgs) = 6
               /\ SubSeq(cArgs, 1, 5) = <<"unshare", "-m", "--", "/bin/sh", "-c">>
               /\ Len(cArgs[6]) >= Len(ShellPrologue)
               /\ SubSeq(cArgs[6], 1, Len(ShellPrologue)) = "mount --make-rslave /; exec "
               /\ ShellReads(QuotedText)
               /\ ShellSplit(QuotedText) = params
               /\ cPath = IF lookPathFound THEN "/usr/bin/unshare" ELSE "unshare"
          ELSE /\ cArgs = params
               /\ cPath = IF params[1] = "lxc-start" /\ lookPathFound
                            THEN "/usr/bin/lxc-start"
                            ELSE params[1]

C14_Witness ==
    /\ proc = "running" /\ driver.sharedRoot /\ driver.apparmor
    /\ command.Privileged /\ command.User = "#1000" /\ command.WorkingDir = "/my app"
    /\ command.Arguments = <<"-c", "echo 'hi' $HOME">>
    /\ Len(cArgs) = 6
    /\ ShellSplit(QuotedText) = params

(***************************************************************************)
(* Claims about GetPidsForContainer                                        *)
(***************************************************************************)
Readable == tasksFile.cgroup = "nil" /\ tasksFile.where # "absent"

NotEmpty(line) == line # ""

\* the lines of the tasks file that are not blank, in file order
NonBlankLines == SelectSeq(Split(tasksFile.content, 1, "\n"), NotEmpty)

\* C15: on a readable tasks file GetPidsForContainer returns the integers of
\* the non-blank (non-empty) lines in file order with a nil error when each of
\* them is an integer, and otherwise an error naming the first line that is
\* not; 123, 456, blank, blank gives [123, 456], and 123, abc names abc.
C15_PidsOfNonBlankLines ==
    (pidsRet.called /\ Readable) =>
        /\ IF \A k \in 1..Len(NonBlankLines) : AtoiOk(NonBlankLines[k])
             THEN /\ pidsRet.err = "nil"
                  /\ Len(pidsRet.pids) = Len(NonBlankLines)
                  /\ \A k \in 1..Len(NonBlankLines) :
                         Itoa(pidsRet.pids[k]) = NonBlankLines[k]
             ELSE LET first == CHOOSE k \in 1..Len(NonBlankLines) :
                                  /\ ~AtoiOk(NonBlankLines[k])
                                  /\ \A j \in 1..(k - 1) : AtoiOk(NonBlankLines[j])
                  IN  /\ pidsRet.err # "nil"
                      /\ Contains(pidsRet.err, "'" \o NonBlankLines[first] \o "'")
        /\ tasksFile.content = "123\n456\n\n" =>
               (pidsRet.pids = <<123, 456>> /\ pidsRet.err = "nil")
        /\ tasksFile.content = "123\nabc\n" =>
               (Contains(pidsRet.err, "abc") /\ pidsRet.err # "nil")

C15_Witness ==
    /\ pidsRet.called /\ Readable
    /\ tasksFile.content = "123\nabc\n"
    /\ pidsRet.pids = <<123>>
    /\ pidsRet.err = "Invalid pid 'abc': strconv.ParseInt: parsing \"abc\": invalid syntax"

(***************************************************************************)
(* Claims about the lifecycle of one Run                                   *)
(***************************************************************************)
\* The lifecycle phase of a Run, read off the position of the launching thread
\* and what waitForStart told it
Phase ==
    IF pc \in {"SetTerminal", "generateLXCConfig"} THEN "Configuring"
    ELSE IF pc \in {"params", "wrap", "Start"} THEN "Launching"
    ELSE IF pc \in {"go", "waitForStart"} \cup WfsPcs THEN "AwaitingRunningConfirmation"
    ELSE IF wfsResult = "unset" THEN "Failed"
    ELSE IF wfsResult = ErrNotRunning THEN "TimedOut"
    ELSE IF wfsResult # "nil" THEN "Failed"
    ELSE IF observedExit \/ pc \in {"return", "done"} THEN "Exited"
    ELSE "Running"

Phases == {"Configuring", "Launching", "AwaitingRunningConfirmation", "Running",
           "Exited", "TimedOut", "Failed"}

\* the phase changes the claim allows
PhaseChanges ==
    { <<"Configuring", "Launching">>,
      <<"Launching", "AwaitingRunningConfirmation">>,
      <<"AwaitingRunningConfirmation", "Running">>,
      <<"Running", "Exited">>,
      <<"AwaitingRunningConfirmation", "Exited">>,
      <<"AwaitingRunningConfirmation", "TimedOut">>,
      <<"Configuring", "Failed">>,
      <<"Launching", "Failed">>,
      <<"AwaitingRunningConfirmation", "Failed">> }

\* C16: the phase of a Run changes only along Configuring, Launching,
\* AwaitingRunningConfirmation, Running, Exited, the shortcut from
\* AwaitingRunningConfirmation to Exited, the timeout from
\* AwaitingRunningConfirmation, and the error exits of the first three phases;
\* the process is started at most once, when Launching ends; and once TimedOut
\* or failed the launching thread does nothing but return.
C16_LifecycleOrder ==
    [][ /\ (Phase' # Phase) => (<<Phase, Phase'>> \in PhaseChanges)
        /\ (proc' = "running" /\ proc # "running")
              => (proc = "unstarted" /\ Phase = "Launching"
                  /\ Phase' = "AwaitingRunningConfirmation")
        /\ (proc # "unstarted") => (proc' # "unstarted")
        /\ (Phase \in {"TimedOut", "Failed"})
              => (pc' \in {pc, "done"} /\ callbackCalls' = callbackCalls)
      ]_vars

\* C16 witness: a Run that went through every phase of the long path
C16_Witness ==
    /\ RunReturned /\ Phase = "Exited"
    /\ wfsResult = "nil" /\ ~observedExit /\ sawRunning /\ callbackCalls = 1
    /\ proc = "exited"

(***************************************************************************)
(* Claims about the termination of Run                                     *)
(***************************************************************************)
\* C17: with the launching thread and the exit-watcher scheduled fairly, every
\* status query and the callback returning, and the child eventually exited if
\* it was started, Run eventually returns.
C17_RunEventuallyReturns ==
    (<>[](proc # "running")) => <>RunReturned

\* C17 witness: the child exited before the first poll, the launching thread
\* saw waitLock closed in its first select, and Run returned.
C17_Witness ==
    /\ RunReturned /\ observedExit /\ lastQuery = NoQuery
    /\ ret.err = "nil" /\ proc = "exited"

(***************************************************************************)
(* Claims about the exit-watcher and the completion indicator              *)
(***************************************************************************)
\* how far the exit-watcher goroutine has got
WatcherRank ==
    CASE wpc = "none" -> 0 [] wpc = "Wait" -> 1 [] wpc = "setErr" -> 2
      [] wpc = "close" -> 3 [] wpc = "done" -> 4

\* C18: one exit-watcher is started per successful launch and none otherwise;
\* waitLock is closed once, by the watcher, after c.Wait() has returned and
\* after the watcher's write of waitErr, and stays closed; the close is always
\* possible, whatever Run is doing; and Run reads waitErr and the exit state
\* only after it has seen waitLock closed.
C18_WatcherAndIndicator ==
    [][ /\ (wpc = "none" /\ wpc' # "none") => (pc = "go" /\ proc # "unstarted")
        /\ (pc = "go" /\ pc' # "go") => (wpc = "none" /\ wpc' = "Wait")
        /\ WatcherRank' >= WatcherRank
        /\ (waitLock = "closed") => (waitLock' = "closed")
        /\ (waitLock' # waitLock)
              => (wpc = "close" /\ wpc' = "done" /\ proc = "exited")
        /\ (wpc = "close") => ENABLED WatcherClose
        /\ (waitErr' # waitErr \/ ProcessState' # ProcessState)
              => (waitLock = "open" /\ waitLock' = "open")
        /\ (pc = "return")
              => (waitLock = "closed" /\ wpc = "done"
                  /\ (pc' = "done" => ret' = [code |-> getExitCode(ProcessState),
                                              err |-> waitErr]))
      ]_vars

\* C18 witness: Run has returned with the start-confirmation timeout, and the
\* watcher has nevertheless recorded a wait error, closed waitLock and finished.
C18_Witness ==
    /\ RunReturned /\ ret.err = ErrNotRunning
    /\ wpc = "done" /\ waitLock = "closed" /\ waitErr = "copy error"

(***************************************************************************)
(* Claims about the failures before the process runs                       *)
(***************************************************************************)
SetupErrors == {"terminal error", "create error", "template error", "start error"}

\* C19: when the terminal setup, the config file or c.Start fails, Run returns
\* -1 and that error at once: no process was started, no exit-watcher was
\* started, no status query was issued and the callback was not invoked; and
\* none of these happens without a started process.
C19_SetupFailureStopsRun ==
    /\ (RunReturned /\ wfsResult = "unset")
          => /\ ret.code = -1 /\ ret.err \in SetupErrors
             /\ proc = "unstarted"
             /\ wpc = "none" /\ waitLock = "open"
             /\ lastQuery = NoQuery /\ callbackCalls = 0
    /\ (RunReturned /\ ret.err \in SetupErrors) => wfsResult = "unset"
    /\ (proc = "unstarted")
          => (wpc = "none" /\ lastQuery = NoQuery /\ callbackCalls = 0
              /\ pc \in {"SetTerminal", "generateLXCConfig", "params", "wrap", "Start",
                        "done"})

\* C19 witness: c.Start failed and Run returned its error
C19_Witness ==
    /\ RunReturned /\ ret = [code |-> -1, err |-> "start error"]
    /\ proc = "unstarted" /\ wpc = "none"

(***************************************************************************)
(* Claims about NewDriver and the mount table                              *)
(***************************************************************************)
MountTableLines == Split(mountinfo.content, 1, "\n")

\* the columns of line k of the mount table
Columns(k) == Split(MountTableLines[k], 1, " ")

\* line k is an entry for / : its mount point, the fifth column, is /
IsRootEntry(k) == Len(Columns(k)) >= 5 /\ Columns(k)[5] = "/"

HasRootEntry == \E k \in 1..Len(MountTableLines) : IsRootEntry(k)

FirstRootEntry ==
    CHOOSE k \in 1..Len(MountTableLines) :
        IsRootEntry(k) /\ \A j \in 1..(k - 1) : ~IsRootEntry(j)

\* the first entry for / has a propagation field, the seventh column, and it
\* begins with "shared"
RootEntryShared ==
    /\ Len(Columns(FirstRootEntry)) >= 7
    /\ HasPrefix(Columns(FirstRootEntry)[7], "shared")

\* C20: when linkLxcStart succeeds NewDriver returns a driver, whatever the
\* mount table holds, since only columns that exist are read; its sharedRoot is
\* true when the first entry for / has a propagation field beginning with
\* "shared", false only when the table is readable and that entry's field does
\* not, and true when the table is unreadable or has no entry for / .
C20_SharedRootFromMountTable ==
    (newDriverRet.status # "unset" /\ linkErr = "nil") =>
        /\ newDriverRet.status = "ok"
        /\ (mountinfo.readable /\ HasRootEntry /\ RootEntryShared)
              => newDriverRet.sharedRoot
        /\ (~newDriverRet.sharedRoot)
              => (mountinfo.readable /\ HasRootEntry /\ ~RootEntryShared)
        /\ (~mountinfo.readable \/ ~HasRootEntry) => newDriverRet.sharedRoot
====
